---- MODULE Spec2Model ----
(***************************************************************************)
(* Model of cenkalti/httpagain: the graceful accept/drain lifecycle of     *)
(* ListenAndServe, acceptLoop, timeoutWaitGroup, wrapHandler and           *)
(* Begin/End.                                                              *)
(*                                                                         *)
(* Goroutines are modelled as interleaved processes with a program         *)
(* counter each.  A sync.WaitGroup is an integer counter: Add/Done change  *)
(* it atomically (a Done that drives it below zero leaves the negative     *)
(* value in the counter and panics).  Wait returns at once on a zero      *)
(* counter and blocks otherwise; the change that brings the counter to     *)
(* zero releases the blocked waiter, which on running again returns if the *)
(* counter is still zero and panics ("WaitGroup is reused before previous  *)
(* Wait has returned") if it is not.                                       *)
(* log.Fatalln ends the process (aborted).  The net/http server, the       *)
(* goagain package and the clients are the environment.                    *)
(*                                                                         *)
(* The two connection-level types are modelled on their own: one           *)
(* singleListener with the callers of its Accept and Close (SLSpec), and   *)
(* one timeoutConn with its Read and Write (TCSpec).                       *)
(***************************************************************************)
EXTENDS Integers, FiniteSets, Sequences, TLC

\* ---- bounds of the model ----
MaxConns == 2        \* connections the listener hands out
MaxReqs  == 2        \* handler invocations net/http makes in all
MaxTasks == 1        \* background tasks running at the same time
MaxCounted == 2      \* acceptsAfterClose stops counting here
MaxCallers == 2      \* goroutines calling one singleListener
MaxCalls == 3        \* Accept and Close calls made on one singleListener
MaxBytes == 2        \* bytes one Read or Write of the connection transfers

\* ---- program constants ----
DefaultGracePeriod == 30   \* seconds; default of both grace periods
DefaultTCPTimeout == 30    \* seconds; default of both TCP timeouts

Conns == 1..MaxConns
GracePeriods == {0, DefaultGracePeriod}
Signals == {"SIGUSR2", "SIGTERM"}
Pools == {"accept", "request", "goroutine"}
Callers == 1..MaxCallers
Timeouts == {-1, 0, DefaultTCPTimeout}
IOErrors == {"nil", "EOF"}

VARIABLES
    RequestGracePeriod,   \* package variable, set before ListenAndServe
    GoroutineGracePeriod, \* package variable, set before ListenAndServe
    Shutdown,             \* TRUE once the Shutdown channel is closed
    goroutineWG,          \* counter of the package-level WaitGroup
    acceptWG,             \* counter of ListenAndServe's acceptWG
    requestWG,            \* counter of ListenAndServe's requestWG
    allDoneWG,            \* counter of ListenAndServe's allDoneWG
    mainPc,               \* position of ListenAndServe
    sig,                  \* signal returned by goagain.Wait
    execCalls,            \* number of goagain.Exec calls made
    aborted,              \* log.Fatalln was called
    alPc,                 \* position of the acceptLoop goroutine
    cur,                  \* connection acceptLoop is dispatching (0: none)
    err,                  \* acceptLoop's err while it is being examined
    connPc,               \* per connection: position of its serving goroutine
    reqs,                 \* handler invocations net/http has made so far
    tasks,                \* background tasks begun and not yet ended
    twgPc,                \* per pool: position of its timeoutWaitGroup
    waitPc,               \* position of each pool's goroutine in wg.Wait()
    doneWG,               \* per pool: doneWG channel closed
    reported,             \* per pool: timeoutMsg was logged
    acceptsAfterClose,    \* Accept calls issued after close(Shutdown)
    completedAfterClose,  \* Accept calls that returned after close(Shutdown)
    once,                 \* singleListener.once: "fresh", "running", "done"
    ran,                  \* the method whose function the once has run
    slPc,                 \* position of each caller of the singleListener
    slOp,                 \* the method each caller is in
    slC,                  \* Accept's local c of each caller
    slErr,                \* Close's result err of each caller
    slCalls,              \* calls made on the singleListener
    handedOut,            \* Accept calls that returned the connection
    connCloses,           \* calls of the connection's Close
    acceptReturns,        \* the (conn, error) pairs Accept has returned
    closeReturns,         \* the errors Close has returned
    readTimeout,          \* timeoutConn.readTimeout
    writeTimeout,         \* timeoutConn.writeTimeout
    tcPc,                 \* position of each goroutine in its timeoutConn call
    tcOp,                 \* the last call each goroutine made on the timeoutConn
    tcDeadlines,          \* the deadlines that call set on the connection
    tcDeadlineErr,        \* the error its deadline call returned
    tcDelegated,          \* whether it called the connection's Read/Write
    tcRet                 \* the (n, error) it returned

vars == <<RequestGracePeriod, GoroutineGracePeriod, Shutdown, goroutineWG,
          acceptWG, requestWG, allDoneWG, mainPc, sig, execCalls,
          aborted, alPc, cur, err, connPc, reqs, tasks,
          twgPc, waitPc, doneWG, reported, acceptsAfterClose, completedAfterClose,
          once, ran, slPc, slOp, slC, slErr, slCalls, handedOut,
          connCloses, acceptReturns, closeReturns,
          readTimeout, writeTimeout, tcPc, tcOp, tcDeadlines, tcDeadlineErr,
          tcDelegated, tcRet>>

slVars == <<once, ran, slPc, slOp, slC, slErr, slCalls, handedOut,
            connCloses, acceptReturns, closeReturns>>
tcVars == <<readTimeout, writeTimeout, tcPc, tcOp, tcDeadlines, tcDeadlineErr,
            tcDelegated, tcRet>>
serverVars == <<RequestGracePeriod, GoroutineGracePeriod, Shutdown,
                goroutineWG, acceptWG, requestWG, allDoneWG, mainPc, sig,
                execCalls, aborted, alPc, cur, err, connPc, reqs, tasks,
                twgPc, waitPc, doneWG, reported, acceptsAfterClose,
                completedAfterClose>>
cfgVars  == <<RequestGracePeriod, GoroutineGracePeriod>>
mainVars == <<mainPc, sig, execCalls>>
loopVars == <<alPc, cur, err, acceptsAfterClose, completedAfterClose>>
connVars == <<connPc, reqs>>
taskVars == <<tasks, goroutineWG>>
twgVars  == <<twgPc, doneWG, reported, allDoneWG>>

\* The process is still executing: no log.Fatalln, ListenAndServe not returned.
Running == ~aborted /\ mainPc # "returned"

\* sl := &singleListener{l: l, conn: c}: a new adapter, no call made yet.
SLInit ==
    /\ once = "fresh"
    /\ ran = "none"
    /\ slPc = [t \in Callers |-> "idle"]
    /\ slOp = [t \in Callers |-> "none"]
    /\ slC = [t \in Callers |-> "nil"]
    /\ slErr = [t \in Callers |-> "nil"]
    /\ slCalls = 0
    /\ handedOut = 0
    /\ connCloses = 0
    /\ acceptReturns = {}
    /\ closeReturns = {}

\* tc := &timeoutConn{Conn: c, readTimeout: TCPReadTimeout,
\*                    writeTimeout: TCPWriteTimeout}: no call made yet.
TCInit ==
    /\ readTimeout \in Timeouts
    /\ writeTimeout \in Timeouts
    /\ tcPc = [t \in Callers |-> "idle"]
    /\ tcOp = [t \in Callers |-> "none"]
    /\ tcDeadlines = [t \in Callers |-> {}]
    /\ tcDeadlineErr = [t \in Callers |-> "nil"]
    /\ tcDelegated = [t \in Callers |-> FALSE]
    /\ tcRet = [t \in Callers |-> <<0, "nil">>]

\* The timeoutConn of the default configuration.
TCDefault ==
    /\ TCInit
    /\ readTimeout = DefaultTCPTimeout
    /\ writeTimeout = DefaultTCPTimeout

ServerInit ==
    /\ RequestGracePeriod \in GracePeriods
    /\ GoroutineGracePeriod \in GracePeriods
    /\ Shutdown = FALSE
    /\ goroutineWG = 0
    /\ acceptWG = 0
    /\ requestWG = 0
    /\ allDoneWG = 0
    /\ mainPc = "start"
    /\ sig = "none"
    /\ execCalls = 0
    /\ aborted = FALSE
    /\ alPc = "notStarted"
    /\ cur = 0
    /\ err = "nil"
    /\ connPc = [c \in Conns |-> "none"]
    /\ reqs = 0
    /\ tasks = 0
    /\ twgPc = [p \in Pools |-> "notStarted"]
    /\ waitPc = [p \in Pools |-> "notStarted"]
    /\ doneWG = [p \in Pools |-> FALSE]
    /\ reported = [p \in Pools |-> FALSE]
    /\ acceptsAfterClose = 0
    /\ completedAfterClose = 0

\* The server of the default configuration.
ServerDefault ==
    /\ ServerInit
    /\ RequestGracePeriod = DefaultGracePeriod
    /\ GoroutineGracePeriod = DefaultGracePeriod

Init == ServerInit /\ SLInit /\ TCDefault

\* log.Fatalln: the process exits.
Fatal == aborted' = TRUE

\* The wg argument of the call for pool p.
PoolWG(p) ==
    CASE p = "accept"    -> acceptWG
      [] p = "request"   -> requestWG
      [] p = "goroutine" -> goroutineWG

\* The end of a WaitGroup's Add or Done: a goroutine blocked in Wait is
\* released when the counter has come to zero.
Release ==
    waitPc' = [p \in Pools |->
                 IF waitPc[p] = "blocked" /\ PoolWG(p)' = 0
                   THEN "released" ELSE waitPc[p]]

----------------------------------------------------------------------------
\* ListenAndServe (the main goroutine)

\* acceptWG.Add(1); goagain.Listener() returns the inherited listener.
MainListenInherited ==
    /\ Running /\ mainPc = "start"
    /\ acceptWG' = acceptWG + 1
    /\ mainPc' = "spawnInherited"
    /\ UNCHANGED <<slVars, tcVars, cfgVars, Shutdown, requestWG, sig, execCalls,
                   aborted, loopVars, connVars, taskVars, twgVars, waitPc>>

\* acceptWG.Add(1); goagain.Listener() fails, net.Listen succeeds.
MainListenFresh ==
    /\ Running /\ mainPc = "start"
    /\ acceptWG' = acceptWG + 1
    /\ mainPc' = "spawnFresh"
    /\ UNCHANGED <<slVars, tcVars, cfgVars, Shutdown, requestWG, sig, execCalls,
                   aborted, loopVars, connVars, taskVars, twgVars, waitPc>>

\* acceptWG.Add(1); goagain.Listener() and net.Listen both fail.
MainListenFail ==
    /\ Running /\ mainPc = "start"
    /\ acceptWG' = acceptWG + 1
    /\ Fatal
    /\ UNCHANGED <<slVars, tcVars, cfgVars, Shutdown, requestWG, mainVars, loopVars,
                   connVars, taskVars, twgVars, waitPc>>

\* Mutant of MainGoAcceptLoopFresh: goagain.Kill is called whether or not
\* the listener was inherited.
MainGoAcceptLoopFresh_Kill ==
    /\ Running /\ mainPc = "spawnFresh"
    /\ alPc' = "check"
    /\ mainPc' = "kill"
    /\ UNCHANGED <<slVars, tcVars, cfgVars, Shutdown, acceptWG, requestWG, sig,
                   execCalls, aborted, cur, err, acceptsAfterClose, completedAfterClose,
                   connVars, taskVars, twgVars, waitPc>>

\* go acceptLoop(l, srv, &acceptWG, &requestWG) on the fresh listener.
MainGoAcceptLoopFresh ==
    /\ Running /\ mainPc = "spawnFresh"
    /\ alPc' = "check"
    /\ mainPc' = "wait"
    /\ UNCHANGED <<slVars, tcVars, cfgVars, Shutdown, acceptWG, requestWG, sig,
                   execCalls, aborted, cur, err, acceptsAfterClose, completedAfterClose,
                   connVars, taskVars, twgVars, waitPc>>

\* go acceptLoop(l, srv, &acceptWG, &requestWG) on the inherited listener.
MainGoAcceptLoopInherited ==
    /\ Running /\ mainPc = "spawnInherited"
    /\ alPc' = "check"
    /\ mainPc' = "kill"
    /\ UNCHANGED <<slVars, tcVars, cfgVars, Shutdown, acceptWG, requestWG, sig,
                   execCalls, aborted, cur, err, acceptsAfterClose, completedAfterClose,
                   connVars, taskVars, twgVars, waitPc>>

\* goagain.Kill() returns nil.
MainKill ==
    /\ Running /\ mainPc = "kill"
    /\ mainPc' = "wait"
    /\ UNCHANGED <<slVars, tcVars, cfgVars, Shutdown, acceptWG, requestWG, sig,
                   execCalls, aborted, loopVars, connVars, taskVars, twgVars, waitPc>>

\* goagain.Kill() returns an error: log.Fatalln.
MainKillFail ==
    /\ Running /\ mainPc = "kill"
    /\ Fatal
    /\ UNCHANGED <<slVars, tcVars, cfgVars, Shutdown, acceptWG, requestWG, mainVars,
                   loopVars, connVars, taskVars, twgVars, waitPc>>

\* goagain.Wait(l) returns a signal.
MainWait ==
    /\ Running /\ mainPc = "wait"
    /\ \E s \in Signals : sig' = s
    /\ mainPc' = "close"
    /\ UNCHANGED <<slVars, tcVars, cfgVars, Shutdown, acceptWG, requestWG,
                   execCalls, aborted, loopVars, connVars,
                   taskVars, twgVars, waitPc>>

\* Mutant of MainWaitFail: the error of goagain.Wait is ignored and the
\* shutdown goes on.
MainWaitFail_Ignored ==
    /\ Running /\ mainPc = "wait"
    /\ mainPc' = "close"
    /\ UNCHANGED <<slVars, tcVars, cfgVars, Shutdown, acceptWG, requestWG, sig, execCalls,
                   aborted, loopVars, connVars, taskVars, twgVars, waitPc>>

\* goagain.Wait(l) returns an error.
MainWaitFail ==
    /\ Running /\ mainPc = "wait"
    /\ Fatal
    /\ UNCHANGED <<slVars, tcVars, cfgVars, Shutdown, acceptWG, requestWG, mainVars,
                   loopVars, connVars, taskVars, twgVars, waitPc>>

\* close(Shutdown)
MainCloseShutdown ==
    /\ Running /\ mainPc = "close"
    /\ Shutdown' = TRUE
    /\ mainPc' = "spawnWaits"
    /\ UNCHANGED <<slVars, tcVars, cfgVars, acceptWG, requestWG, sig, execCalls,
                   aborted, loopVars, connVars, taskVars, twgVars, waitPc>>

\* Mutant of MainSpawnWaits: allDoneWG.Add(2) for three waits.
MainSpawnWaits_Add2 ==
    /\ Running /\ mainPc = "spawnWaits"
    /\ allDoneWG' = allDoneWG + 2
    /\ twgPc' = [p \in Pools |-> "select"]
    /\ waitPc' = [p \in Pools |-> "wait"]
    /\ mainPc' = "allDoneWait"
    /\ UNCHANGED <<slVars, tcVars, cfgVars, Shutdown, acceptWG, requestWG, sig,
                   execCalls, aborted, loopVars, connVars,
                   taskVars, doneWG, reported>>

\* allDoneWG.Add(3) and the three `go timeoutWaitGroup(...)` statements.
MainSpawnWaits ==
    /\ Running /\ mainPc = "spawnWaits"
    /\ allDoneWG' = allDoneWG + 3
    /\ twgPc' = [p \in Pools |-> "select"]
    /\ waitPc' = [p \in Pools |-> "wait"]
    /\ mainPc' = "allDoneWait"
    /\ UNCHANGED <<slVars, tcVars, cfgVars, Shutdown, acceptWG, requestWG, sig,
                   execCalls, aborted, loopVars, connVars,
                   taskVars, doneWG, reported>>

\* allDoneWG.Wait() returns.
MainAllDone ==
    /\ Running /\ mainPc = "allDoneWait"
    /\ allDoneWG = 0
    /\ mainPc' = "decide"
    /\ UNCHANGED <<slVars, tcVars, cfgVars, Shutdown, acceptWG, requestWG, sig,
                   execCalls, aborted, loopVars, connVars,
                   taskVars, twgVars, waitPc>>

\* if goagain.SIGUSR2 == sig: goagain.Exec(l) returns nil, ListenAndServe returns.
MainExec ==
    /\ Running /\ mainPc = "decide"
    /\ sig = "SIGUSR2"
    /\ execCalls' = execCalls + 1
    /\ mainPc' = "returned"
    /\ UNCHANGED <<slVars, tcVars, cfgVars, Shutdown, acceptWG, requestWG, sig,
                   aborted, loopVars, connVars, taskVars, twgVars, waitPc>>

\* if goagain.SIGUSR2 == sig: goagain.Exec(l) returns an error.
MainExecFail ==
    /\ Running /\ mainPc = "decide"
    /\ sig = "SIGUSR2"
    /\ execCalls' = execCalls + 1
    /\ Fatal
    /\ UNCHANGED <<slVars, tcVars, cfgVars, Shutdown, acceptWG, requestWG, mainPc,
                   sig, loopVars, connVars, taskVars, twgVars, waitPc>>

\* Mutant of MainReturn: goagain.Exec(l) is called whatever the signal.
MainReturn_ExecAlways ==
    /\ Running /\ mainPc = "decide"
    /\ sig # "SIGUSR2"
    /\ execCalls' = execCalls + 1
    /\ mainPc' = "returned"
    /\ UNCHANGED <<slVars, tcVars, cfgVars, Shutdown, acceptWG, requestWG, sig,
                   aborted, loopVars, connVars, taskVars, twgVars, waitPc>>

\* sig is not SIGUSR2: ListenAndServe returns without calling Exec.
MainReturn ==
    /\ Running /\ mainPc = "decide"
    /\ sig # "SIGUSR2"
    /\ mainPc' = "returned"
    /\ UNCHANGED <<slVars, tcVars, cfgVars, Shutdown, acceptWG, requestWG, sig,
                   execCalls, aborted, loopVars, connVars,
                   taskVars, twgVars, waitPc>>

----------------------------------------------------------------------------
\* acceptLoop (one goroutine)

\* defer acceptWG.Done() running on return from acceptLoop.
ALReturn ==
    /\ alPc' = "stopped"
    /\ acceptWG' = acceptWG - 1

\* Mutant of ALCheck: a closed Shutdown is seen only between connections,
\* not after an Accept that timed out (the check is skipped once).
ALCheck_SkipOnce ==
    /\ Running /\ alPc = "check"
    /\ IF Shutdown /\ acceptsAfterClose # 1
         THEN ALReturn
         ELSE alPc' = "accept" /\ UNCHANGED acceptWG
    /\ UNCHANGED <<slVars, tcVars, cfgVars, Shutdown, requestWG, mainVars, aborted, cur, err,
                   acceptsAfterClose, completedAfterClose, connVars, taskVars, twgVars>>
    /\ Release

\* select { case <-Shutdown: return; default: }, then on the default case
\* l.SetDeadline(time.Now().Add(breakAcceptInterval)) returns nil.
ALCheck ==
    /\ Running /\ alPc = "check"
    /\ IF Shutdown
         THEN ALReturn
         ELSE alPc' = "accept" /\ UNCHANGED acceptWG
    /\ UNCHANGED <<slVars, tcVars, cfgVars, Shutdown, requestWG, mainVars, aborted, cur, err,
                   acceptsAfterClose, completedAfterClose, connVars, taskVars, twgVars>>
    /\ Release

\* The default case is taken and l.SetDeadline returns an error: log.Fatalln.
ALSetDeadlineFail ==
    /\ Running /\ alPc = "check"
    /\ ~Shutdown
    /\ Fatal
    /\ UNCHANGED <<slVars, tcVars, cfgVars, Shutdown, acceptWG, requestWG, mainVars,
                   loopVars, connVars, taskVars, twgVars, waitPc>>

\* l.Accept() is called; the goroutine blocks in it.
ALAccept ==
    /\ Running /\ alPc = "accept"
    /\ alPc' = "inAccept"
    /\ acceptsAfterClose' =
          IF Shutdown /\ acceptsAfterClose < MaxCounted
            THEN acceptsAfterClose + 1
            ELSE acceptsAfterClose
    /\ UNCHANGED <<slVars, tcVars, cfgVars, Shutdown, acceptWG, requestWG, mainVars, aborted,
                   cur, err, completedAfterClose, connVars, taskVars, twgVars, waitPc>>

\* l.Accept() has returned: counted when Shutdown is already closed (the
\* count stops at MaxCounted).
AcceptCompleted ==
    completedAfterClose' =
        IF Shutdown /\ completedAfterClose < MaxCounted
          THEN completedAfterClose + 1
          ELSE completedAfterClose

\* l.Accept() returns a connection and a nil error (a client connected
\* before the deadline).
ALAcceptConn ==
    /\ Running /\ alPc = "inAccept"
    /\ \E c \in Conns :
         /\ connPc[c] = "none"
         /\ \A d \in Conns : d < c => connPc[d] # "none"
         /\ cur' = c
         /\ connPc' = [connPc EXCEPT ![c] = "accepted"]
         /\ AcceptCompleted
    /\ err' = "nil"
    /\ alPc' = "accepted"
    /\ UNCHANGED <<slVars, tcVars, cfgVars, Shutdown, acceptWG, requestWG, mainVars, aborted,
                   acceptsAfterClose, reqs, taskVars, twgVars, waitPc>>

\* l.Accept() returns an error e: a timeout (deadline exceeded), the
\* listener was closed, or anything else.
ALAcceptErr(e) ==
    /\ Running /\ alPc = "inAccept"
    /\ err' = e
    /\ alPc' = "accepted"
    /\ AcceptCompleted
    /\ UNCHANGED <<slVars, tcVars, cfgVars, Shutdown, acceptWG, requestWG, mainVars, aborted,
                   cur, acceptsAfterClose, connVars, taskVars, twgVars, waitPc>>

\* l.Accept() fails with a timeout.
ALAcceptTimeout == ALAcceptErr("timeout")

\* l.Accept() fails because the listener was closed.
ALAcceptClosing == ALAcceptErr("closing")

\* l.Accept() fails with any other error.
ALAcceptFatal == ALAcceptErr("other")

\* Mutant of AcceptDisposition: a closed listener is treated as any other
\* error.
AcceptDisposition_ClosingFatal(e) ==
    CASE e = "nil"     -> "dispatch"
      [] e = "timeout" -> "continue"
      [] OTHER         -> "fatal"

\* What acceptLoop does with the error of l.Accept():
\* if err != nil { if goagain.IsErrClosing(err) { return };
\*                 if err.(*net.OpError).Timeout() { continue };
\*                 log.Fatalln(err) }
AcceptDisposition(e) ==
    CASE e = "nil"     -> "dispatch"
      [] e = "closing" -> "return"
      [] e = "timeout" -> "continue"
      [] OTHER         -> "fatal"

\* Mutant of ALAfterAccept: a connection that arrives when Shutdown is
\* already closed is closed at once, not counted and not served.
ALAfterAccept_DropLate ==
    /\ Running /\ alPc = "accepted"
    /\ LET d == IF AcceptDisposition(err) = "dispatch" /\ Shutdown
                  THEN "drop" ELSE AcceptDisposition(err) IN
         /\ alPc' = CASE d = "dispatch" -> "serve"
                      [] d = "return"   -> "stopped"
                      [] d = "continue" -> "check"
                      [] d = "drop"     -> "check"
                      [] OTHER          -> "fatal"
         /\ requestWG' = IF d = "dispatch" THEN requestWG + 1 ELSE requestWG
         /\ acceptWG' = IF d = "return" THEN acceptWG - 1 ELSE acceptWG
         /\ aborted' = (d = "fatal")
         /\ err' = IF d = "fatal" THEN err ELSE "nil"
         /\ cur' = IF d = "drop" THEN 0 ELSE cur
         /\ connPc' = IF d = "drop" THEN [connPc EXCEPT ![cur] = "closed"]
                                    ELSE connPc
    /\ UNCHANGED <<slVars, tcVars, cfgVars, Shutdown, mainVars,
                   acceptsAfterClose, completedAfterClose, reqs, taskVars,
                   twgVars>>
    /\ Release

\* The code after l.Accept(): the error is examined; with a nil error
\* requestWG.Add(1) and sl := &singleListener{l: l, conn: c}.
ALAfterAccept ==
    /\ Running /\ alPc = "accepted"
    /\ LET d == AcceptDisposition(err) IN
         /\ alPc' = CASE d = "dispatch" -> "serve"
                      [] d = "return"   -> "stopped"
                      [] d = "continue" -> "check"
                      [] OTHER          -> "fatal"
         /\ requestWG' = IF d = "dispatch" THEN requestWG + 1 ELSE requestWG
         /\ acceptWG' = IF d = "return" THEN acceptWG - 1 ELSE acceptWG
         /\ aborted' = (d = "fatal")
         /\ err' = IF d = "fatal" THEN err ELSE "nil"
    /\ UNCHANGED <<slVars, tcVars, cfgVars, Shutdown, mainVars, cur, acceptsAfterClose, completedAfterClose,
                   connVars, taskVars, twgVars>>
    /\ Release

\* Mutant of ALServe: the connection is served on acceptLoop's own
\* goroutine, so Serve does not return while a handler is running.
ALServe_Inline ==
    /\ Running /\ alPc = "serve"
    /\ \A c \in Conns : connPc[c] # "handling"
    /\ connPc' = [connPc EXCEPT ![cur] = "idle"]
    /\ cur' = 0
    /\ err' = "errSingleListen"
    /\ alPc' = "served"
    /\ UNCHANGED <<slVars, tcVars, cfgVars, Shutdown, acceptWG, requestWG, mainVars, aborted,
                   acceptsAfterClose, completedAfterClose, reqs, taskVars, twgVars, waitPc>>

\* srv.Serve(sl): the server takes the connection from the singleListener,
\* spawns the goroutine serving it, and returns errSingleListen.
ALServe ==
    /\ Running /\ alPc = "serve"
    /\ connPc' = [connPc EXCEPT ![cur] = "idle"]
    /\ cur' = 0
    /\ err' = "errSingleListen"
    /\ alPc' = "served"
    /\ UNCHANGED <<slVars, tcVars, cfgVars, Shutdown, acceptWG, requestWG, mainVars, aborted,
                   acceptsAfterClose, completedAfterClose, reqs, taskVars, twgVars, waitPc>>

\* srv.Serve(sl) returns an error other than errSingleListen.
ALServeFatal ==
    /\ Running /\ alPc = "serve"
    /\ err' = "other"
    /\ alPc' = "served"
    /\ UNCHANGED <<slVars, tcVars, cfgVars, Shutdown, acceptWG, requestWG, mainVars, aborted,
                   cur, acceptsAfterClose, completedAfterClose, connVars, taskVars, twgVars, waitPc>>

\* What acceptLoop does with the error of srv.Serve(sl):
\* if err == errSingleListen { continue }; if err != nil { log.Fatalln(err) }
ServeDisposition(e) ==
    CASE e = "errSingleListen" -> "continue"
      [] e = "nil"             -> "continue"
      [] OTHER                 -> "fatal"

\* The code after srv.Serve(sl): the error is examined.
ALAfterServe ==
    /\ Running /\ alPc = "served"
    /\ LET d == ServeDisposition(err) IN
         /\ alPc' = IF d = "continue" THEN "check" ELSE "fatal"
         /\ aborted' = (d = "fatal")
         /\ err' = IF d = "fatal" THEN err ELSE "nil"
    /\ UNCHANGED <<slVars, tcVars, cfgVars, Shutdown, acceptWG, requestWG, mainVars, cur,
                   acceptsAfterClose, completedAfterClose, connVars, taskVars, twgVars, waitPc>>

----------------------------------------------------------------------------
\* Begin / End and the wrapped handler, driven by the net/http server

\* func Begin() { goroutineWG.Add(1) }
Begin == goroutineWG' = goroutineWG + 1

\* func End() { goroutineWG.Done() }
End == goroutineWG' = goroutineWG - 1

\* The deferred wg.Done() of wrapHandler on connection c.  net/http recovers
\* a panic of the handler goroutine and closes the connection (its serving
\* goroutine ends); a Done that drives the counter below zero panics after
\* the counter was changed.
wrapHandlerDone(c, panics) ==
    /\ requestWG' = requestWG - 1
    /\ connPc' = [connPc EXCEPT ![c] =
                    IF panics \/ requestWG - 1 < 0 THEN "closed" ELSE "idle"]

\* net/http reads a request on connection c and invokes the wrapped handler.
HandlerStart(c) ==
    /\ Running /\ connPc[c] = "idle"
    /\ reqs < MaxReqs
    /\ connPc' = [connPc EXCEPT ![c] = "handling"]
    /\ reqs' = reqs + 1
    /\ UNCHANGED <<slVars, tcVars, cfgVars, Shutdown, acceptWG, requestWG, mainVars, aborted,
                   loopVars, taskVars, twgVars, waitPc>>

\* The running handler of connection c calls Begin() and spawns a task.
HandlerBegin(c) ==
    /\ Running /\ connPc[c] = "handling"
    /\ tasks < MaxTasks
    /\ Begin
    /\ tasks' = tasks + 1
    /\ UNCHANGED <<slVars, tcVars, cfgVars, Shutdown, acceptWG, requestWG, mainVars, aborted,
                   loopVars, connVars, twgVars>>
    /\ Release

\* h.ServeHTTP returns normally; the deferred wg.Done() runs.
HandlerReturn(c) ==
    /\ Running /\ connPc[c] = "handling"
    /\ wrapHandlerDone(c, FALSE)
    /\ UNCHANGED <<slVars, tcVars, cfgVars, Shutdown, acceptWG, mainVars, aborted, loopVars,
                   reqs, taskVars, twgVars>>
    /\ Release

\* h.ServeHTTP panics; the deferred wg.Done() runs.
HandlerPanic(c) ==
    /\ Running /\ connPc[c] = "handling"
    /\ wrapHandlerDone(c, TRUE)
    /\ UNCHANGED <<slVars, tcVars, cfgVars, Shutdown, acceptWG, mainVars, aborted, loopVars,
                   reqs, taskVars, twgVars>>
    /\ Release

\* The client closes connection c (or it times out) between requests; the
\* goroutine serving it ends.
ConnClose(c) ==
    /\ Running /\ connPc[c] = "idle"
    /\ connPc' = [connPc EXCEPT ![c] = "closed"]
    /\ UNCHANGED <<slVars, tcVars, cfgVars, Shutdown, acceptWG, requestWG, mainVars, aborted,
                   loopVars, reqs, taskVars, twgVars, waitPc>>

\* A background task finishes: its deferred End() runs.
TaskEnd ==
    /\ Running /\ tasks > 0
    /\ End
    /\ tasks' = tasks - 1
    /\ UNCHANGED <<slVars, tcVars, cfgVars, Shutdown, acceptWG, requestWG, mainVars, aborted,
                   loopVars, connVars, twgVars>>
    /\ Release

----------------------------------------------------------------------------
\* timeoutWaitGroup(allDoneWG, wg, timeout, timeoutMsg), one per pool

\* The timeout argument of the call for pool p.
PoolTimeout(p) ==
    CASE p = "accept"    -> 0
      [] p = "request"   -> RequestGracePeriod
      [] p = "goroutine" -> GoroutineGracePeriod

\* go func() { wg.Wait(); close(doneWG) }(): wg.Wait() is called.  On a
\* zero counter it returns at once and doneWG is closed; otherwise the
\* goroutine blocks.
TWGWait(p) ==
    /\ Running /\ waitPc[p] = "wait"
    /\ IF PoolWG(p) = 0
         THEN /\ waitPc' = [waitPc EXCEPT ![p] = "done"]
              /\ doneWG' = [doneWG EXCEPT ![p] = TRUE]
         ELSE /\ waitPc' = [waitPc EXCEPT ![p] = "blocked"]
              /\ UNCHANGED doneWG
    /\ UNCHANGED <<slVars, tcVars, cfgVars, Shutdown, acceptWG, requestWG, mainVars, aborted,
                   loopVars, connVars, taskVars, twgPc, reported, allDoneWG>>

\* The released goroutine runs again inside wg.Wait(): with the counter
\* still at zero Wait returns and doneWG is closed; with a counter changed
\* in between Wait panics, in a goroutine nothing recovers: the process
\* dies.
TWGWake(p) ==
    /\ Running /\ waitPc[p] = "released"
    /\ IF PoolWG(p) = 0
         THEN /\ waitPc' = [waitPc EXCEPT ![p] = "done"]
              /\ doneWG' = [doneWG EXCEPT ![p] = TRUE]
              /\ UNCHANGED aborted
         ELSE /\ waitPc' = [waitPc EXCEPT ![p] = "panicked"]
              /\ Fatal
              /\ UNCHANGED doneWG
    /\ UNCHANGED <<slVars, tcVars, cfgVars, Shutdown, acceptWG, requestWG, mainVars,
                   loopVars, connVars, taskVars, twgPc, reported, allDoneWG>>

\* select case <-doneWG, then allDoneWG.Done()
TWGSelectDone(p) ==
    /\ Running /\ twgPc[p] = "select"
    /\ doneWG[p]
    /\ twgPc' = [twgPc EXCEPT ![p] = "done"]
    /\ allDoneWG' = allDoneWG - 1
    /\ UNCHANGED <<slVars, tcVars, cfgVars, Shutdown, acceptWG, requestWG, mainVars, aborted,
                   loopVars, connVars, taskVars, waitPc, doneWG, reported>>

\* Mutant of TWGSelectTimeout: one timer is shared by the three waits, so
\* the expiry of pool p's grace period ends every wait still pending.
TWGSelectTimeout_Shared(p) ==
    /\ Running /\ twgPc[p] = "select"
    /\ PoolTimeout(p) > 0
    /\ reported' = [reported EXCEPT ![p] = TRUE]
    /\ twgPc' = [q \in Pools |-> "done"]
    /\ allDoneWG' = allDoneWG - Cardinality({q \in Pools : twgPc[q] = "select"})
    /\ UNCHANGED <<slVars, tcVars, cfgVars, Shutdown, acceptWG, requestWG, mainVars, aborted,
                   loopVars, connVars, taskVars, waitPc, doneWG>>

\* if timeout > 0 { timeoutChan = time.After(timeout) }: the timer expires
\* and select takes case <-timeoutChan: log.Println(timeoutMsg), then
\* allDoneWG.Done().  With timeout = 0 timeoutChan is nil and never ready.
TWGSelectTimeout(p) ==
    /\ Running /\ twgPc[p] = "select"
    /\ PoolTimeout(p) > 0
    /\ reported' = [reported EXCEPT ![p] = TRUE]
    /\ twgPc' = [twgPc EXCEPT ![p] = "done"]
    /\ allDoneWG' = allDoneWG - 1
    /\ UNCHANGED <<slVars, tcVars, cfgVars, Shutdown, acceptWG, requestWG, mainVars, aborted,
                   loopVars, connVars, taskVars, waitPc, doneWG>>

----------------------------------------------------------------------------
\* singleListener: Accept and Close, called by any of Callers.
\* s.once is a sync.Once: the first caller of Do runs its function, callers
\* arriving while it runs block until it is done, later callers skip it.

\* A caller enters Accept (var c net.Conn) or Close (err error) and
\* reaches s.once.Do.
SLCall(t, op) ==
    /\ slPc[t] = "idle"
    /\ slCalls < MaxCalls
    /\ slCalls' = slCalls + 1
    /\ slOp' = [slOp EXCEPT ![t] = op]
    /\ slC' = [slC EXCEPT ![t] = "nil"]
    /\ slErr' = [slErr EXCEPT ![t] = "nil"]
    /\ slPc' = [slPc EXCEPT ![t] = "do"]
    /\ UNCHANGED <<serverVars, tcVars, once, ran, handedOut, connCloses,
                   acceptReturns, closeReturns>>

\* func (s *singleListener) Accept(): entry.
SLAcceptCall(t) == SLCall(t, "Accept")

\* func (s *singleListener) Close(): entry.
SLCloseCall(t) == SLCall(t, "Close")

\* s.once.Do(f) by the first caller: it starts running f.
SLOnceDo(t) ==
    /\ slPc[t] = "do"
    /\ once = "fresh"
    /\ once' = "running"
    /\ slPc' = [slPc EXCEPT ![t] = "f"]
    /\ UNCHANGED <<serverVars, tcVars, ran, slOp, slC, slErr, slCalls,
                   handedOut, connCloses, acceptReturns, closeReturns>>

\* Accept's function runs: c = s.conn; the once is done.
SLAcceptF(t) ==
    /\ slPc[t] = "f" /\ slOp[t] = "Accept"
    /\ slC' = [slC EXCEPT ![t] = "conn"]
    /\ once' = "done"
    /\ ran' = "Accept"
    /\ slPc' = [slPc EXCEPT ![t] = "ret"]
    /\ UNCHANGED <<serverVars, tcVars, slOp, slErr, slCalls, handedOut,
                   connCloses, acceptReturns, closeReturns>>

\* Mutant of SLCloseF: Close's function does not close the connection.
SLCloseF_NoClose(t) ==
    /\ slPc[t] = "f" /\ slOp[t] = "Close"
    /\ once' = "done"
    /\ ran' = "Close"
    /\ slPc' = [slPc EXCEPT ![t] = "ret"]
    /\ UNCHANGED <<serverVars, tcVars, slOp, slC, slErr, slCalls, handedOut,
                   connCloses, acceptReturns, closeReturns>>

\* Close's function runs: err = s.conn.Close(), which succeeds or fails;
\* the once is done.
SLCloseF(t) ==
    /\ slPc[t] = "f" /\ slOp[t] = "Close"
    /\ connCloses' = connCloses + 1
    /\ \E e \in {"nil", "closeErr"} : slErr' = [slErr EXCEPT ![t] = e]
    /\ once' = "done"
    /\ ran' = "Close"
    /\ slPc' = [slPc EXCEPT ![t] = "ret"]
    /\ UNCHANGED <<serverVars, tcVars, slOp, slC, slCalls, handedOut,
                   acceptReturns, closeReturns>>

\* Mutant of SLOnceSkip: Accept has no gate, every call takes s.conn.
SLOnceSkip_AcceptTakes(t) ==
    /\ slPc[t] = "do"
    /\ once = "done"
    /\ slC' = [slC EXCEPT ![t] = IF slOp[t] = "Accept" THEN "conn" ELSE @]
    /\ slPc' = [slPc EXCEPT ![t] = "ret"]
    /\ UNCHANGED <<serverVars, tcVars, once, ran, slOp, slErr, slCalls,
                   handedOut, connCloses, acceptReturns, closeReturns>>

\* Mutant of SLOnceSkip: Close has a gate of its own, so a Close that
\* comes after an Accept still closes the connection.
SLOnceSkip_CloseOwnGate(t) ==
    /\ slPc[t] = "do"
    /\ once = "done"
    /\ connCloses' = IF slOp[t] = "Close" /\ ran = "Accept" /\ connCloses = 0
                       THEN 1 ELSE connCloses
    /\ slPc' = [slPc EXCEPT ![t] = "ret"]
    /\ UNCHANGED <<serverVars, tcVars, once, ran, slOp, slC, slErr, slCalls,
                   handedOut, acceptReturns, closeReturns>>

\* s.once.Do(f) once the once is done: f is not run, c and err stay nil.
SLOnceSkip(t) ==
    /\ slPc[t] = "do"
    /\ once = "done"
    /\ slPc' = [slPc EXCEPT ![t] = "ret"]
    /\ UNCHANGED <<serverVars, tcVars, once, ran, slOp, slC, slErr, slCalls,
                   handedOut, connCloses, acceptReturns, closeReturns>>

\* What Accept returns: if c != nil { return &timeoutConn{Conn: c, ...}, nil }
\* return nil, errSingleListen
AcceptResult(c) ==
    IF c # "nil" THEN <<"timeoutConn", "nil">> ELSE <<"nil", "errSingleListen">>

\* Accept returns.
SLAcceptReturn(t) ==
    /\ slPc[t] = "ret" /\ slOp[t] = "Accept"
    /\ acceptReturns' = acceptReturns \cup {AcceptResult(slC[t])}
    /\ handedOut' = IF AcceptResult(slC[t])[1] # "nil"
                      THEN handedOut + 1 ELSE handedOut
    /\ slPc' = [slPc EXCEPT ![t] = "idle"]
    /\ UNCHANGED <<serverVars, tcVars, once, ran, slOp, slC, slErr, slCalls,
                   connCloses, closeReturns>>

\* Close returns err.
SLCloseReturn(t) ==
    /\ slPc[t] = "ret" /\ slOp[t] = "Close"
    /\ closeReturns' = closeReturns \cup {slErr[t]}
    /\ slPc' = [slPc EXCEPT ![t] = "idle"]
    /\ UNCHANGED <<serverVars, tcVars, once, ran, slOp, slC, slErr, slCalls,
                   handedOut, connCloses, acceptReturns>>

SLNext ==
    \E t \in Callers :
        \/ SLAcceptCall(t) \/ SLCloseCall(t)
        \/ SLOnceDo(t) \/ SLAcceptF(t) \/ SLCloseF(t) \/ SLOnceSkip(t)
        \/ SLAcceptReturn(t) \/ SLCloseReturn(t)

\* One singleListener under its callers; the rest of the program stands still.
SLSpecInit == ServerDefault /\ SLInit /\ TCDefault

SLSpec == SLSpecInit /\ [][SLNext]_vars

----------------------------------------------------------------------------
\* timeoutConn: Read and Write, called by the goroutines t of Callers, any
\* number of them at a time (a net.Conn allows concurrent calls).  dl is
\* what SetReadDeadline/SetWriteDeadline returns when called, (n, e) what
\* the connection's Read/Write returns when called.

\* The beginning of a call op by goroutine t, up to the connection's
\* Read/Write: with arm the deadline of direction dir is set, and when that
\* fails with dl the call returns (0, dl).
TCCall(t, op, dir, arm, dl) ==
    LET failed == arm /\ dl # "nil"
    IN  /\ tcPc[t] = "idle"
        /\ tcOp' = [tcOp EXCEPT ![t] = op]
        /\ tcDeadlines' = [tcDeadlines EXCEPT ![t] = IF arm THEN {dir} ELSE {}]
        /\ tcDeadlineErr' = [tcDeadlineErr EXCEPT ![t] = IF arm THEN dl ELSE "nil"]
        /\ tcDelegated' = [tcDelegated EXCEPT ![t] = FALSE]
        /\ tcRet' = [tcRet EXCEPT ![t] = IF failed THEN <<0, dl>> ELSE <<0, "nil">>]
        /\ tcPc' = [tcPc EXCEPT ![t] = IF failed THEN "idle" ELSE "armed"]
        /\ UNCHANGED <<serverVars, slVars, readTimeout, writeTimeout>>

\* c.Conn.Read(b) / c.Conn.Write(b) is called: goroutine t blocks in it.
TCDelegate(t, op) ==
    /\ tcPc[t] = "armed" /\ tcOp[t] = op
    /\ tcDelegated' = [tcDelegated EXCEPT ![t] = TRUE]
    /\ tcPc' = [tcPc EXCEPT ![t] = "io"]
    /\ UNCHANGED <<serverVars, slVars, readTimeout, writeTimeout, tcOp,
                   tcDeadlines, tcDeadlineErr, tcRet>>

\* c.Conn.Read(b) / c.Conn.Write(b) returns (n, e), and the call returns it.
TCReturn(t, op, n, e) ==
    /\ tcPc[t] = "io" /\ tcOp[t] = op
    /\ tcRet' = [tcRet EXCEPT ![t] = <<n, e>>]
    /\ tcPc' = [tcPc EXCEPT ![t] = "idle"]
    /\ UNCHANGED <<serverVars, slVars, readTimeout, writeTimeout, tcOp,
                   tcDeadlines, tcDeadlineErr, tcDelegated>>

\* Mutant of TCRead: Read looks at writeTimeout.
TCRead_WriteTimeout(t) ==
    \E dl \in {"nil", "deadlineErr"} :
        TCCall(t, "Read", "read", writeTimeout > 0, dl)

\* func (c *timeoutConn) Read(b []byte) (int, error): the call, with
\* SetReadDeadline when readTimeout > 0.
TCRead(t) ==
    \E dl \in {"nil", "deadlineErr"} :
        TCCall(t, "Read", "read", readTimeout > 0, dl)

\* return c.Conn.Read(b): the connection's Read is called ...
TCReadConn(t) == TCDelegate(t, "Read")

\* ... and returns.
TCReadReturn(t) ==
    \E n \in 0..MaxBytes, e \in IOErrors : TCReturn(t, "Read", n, e)

\* func (c *timeoutConn) Write(b []byte) (int, error): the call, with
\* SetWriteDeadline when writeTimeout > 0.
TCWrite(t) ==
    \E dl \in {"nil", "deadlineErr"} :
        TCCall(t, "Write", "write", writeTimeout > 0, dl)

\* return c.Conn.Write(b): the connection's Write is called ...
TCWriteConn(t) == TCDelegate(t, "Write")

\* ... and returns.
TCWriteReturn(t) ==
    \E n \in 0..MaxBytes, e \in IOErrors : TCReturn(t, "Write", n, e)

TCNext ==
    \/ \E t \in Callers : TCRead(t)
    \/ \E t \in Callers : TCReadConn(t)
    \/ \E t \in Callers : TCReadReturn(t)
    \/ \E t \in Callers : TCWrite(t)
    \/ \E t \in Callers : TCWriteConn(t)
    \/ \E t \in Callers : TCWriteReturn(t)

\* One timeoutConn under its reads and writes; the rest stands still.
TCSpecInit == ServerDefault /\ SLInit /\ TCInit

TCSpec == TCSpecInit /\ [][TCNext]_vars

----------------------------------------------------------------------------
Main ==
    \/ MainListenInherited \/ MainListenFresh \/ MainListenFail
    \/ MainGoAcceptLoopFresh \/ MainGoAcceptLoopInherited
    \/ MainKill \/ MainKillFail
    \/ MainWait \/ MainWaitFail
    \/ MainCloseShutdown \/ MainSpawnWaits \/ MainAllDone
    \/ MainExec \/ MainExecFail \/ MainReturn

AcceptLoop ==
    \/ ALCheck \/ ALAccept
    \/ ALAcceptConn \/ ALAcceptTimeout \/ ALAfterAccept
    \/ ALServe \/ ALAfterServe

AcceptLoopFault ==
    \/ ALSetDeadlineFail \/ ALAcceptClosing \/ ALAcceptFatal \/ ALServeFatal

Handlers ==
    \/ \E c \in Conns : HandlerStart(c)
    \/ \E c \in Conns : HandlerBegin(c)
    \/ \E c \in Conns : HandlerReturn(c)
    \/ \E c \in Conns : HandlerPanic(c)
    \/ \E c \in Conns : ConnClose(c)
    \/ TaskEnd

Waits ==
    \/ \E p \in Pools : TWGWait(p)
    \/ \E p \in Pools : TWGWake(p)
    \/ \E p \in Pools : TWGSelectDone(p)
    \/ \E p \in Pools : TWGSelectTimeout(p)

Next == Main \/ AcceptLoop \/ AcceptLoopFault \/ Handlers \/ Waits

Spec == Init /\ [][Next]_vars

\* The steps of ListenAndServe after goagain.Wait has returned.
MainAfterSignal ==
    \/ MainCloseShutdown \/ MainSpawnWaits \/ MainAllDone
    \/ MainExec \/ MainExecFail \/ MainReturn

\* The same program with a listener and a server that do not fail: every
\* Accept yields a connection or times out, Serve returns errSingleListen.
LiveNext == Main \/ AcceptLoop \/ Handlers \/ Waits

\* The Go scheduler runs every runnable goroutine and timers expire; nothing
\* is assumed about clients, signals, handlers or background tasks.
Fairness ==
    /\ WF_vars(MainAfterSignal)
    /\ WF_vars(AcceptLoop)
    /\ \A p \in Pools : WF_vars(TWGWait(p) \/ TWGWake(p))
    /\ \A p \in Pools : WF_vars(TWGSelectDone(p) \/ TWGSelectTimeout(p))

LiveSpec == Init /\ [][LiveNext]_vars /\ Fairness

TypeOK ==
    /\ RequestGracePeriod \in GracePeriods
    /\ GoroutineGracePeriod \in GracePeriods
    /\ Shutdown \in BOOLEAN
    /\ aborted \in BOOLEAN
    /\ waitPc \in [Pools -> {"notStarted", "wait", "blocked", "released",
                              "done", "panicked"}]
    /\ \A p \in Pools : doneWG[p] <=> waitPc[p] = "done"
    /\ mainPc \in {"start", "spawnFresh", "spawnInherited", "kill", "wait", "close", "spawnWaits",
                   "allDoneWait", "decide", "returned"}
    /\ alPc \in {"notStarted", "check", "accept", "inAccept", "accepted",
                 "serve", "served", "stopped", "fatal"}
    /\ err \in {"nil", "timeout", "closing", "other", "errSingleListen"}
    /\ completedAfterClose \in 0..MaxCounted
    /\ connPc \in [Conns -> {"none", "accepted", "idle", "handling", "closed"}]
    /\ twgPc \in [Pools -> {"notStarted", "select", "done"}]


----------------------------------------------------------------------------
\* Properties

\* The post-drain action has happened: goagain.Exec was called, or
\* ListenAndServe returned.
PostDrainReached == mainPc = "returned" \/ execCalls > 0

\* C1: the post-drain action (Exec or return) happens only after all three
\* waits of the shutdown sequence (accept loop, requests, background tasks)
\* have completed, by drain or by grace timeout.
PostDrainAfterAllWaits ==
    PostDrainReached => \A p \in Pools : twgPc[p] = "done"

\* C1 witness: ListenAndServe returned after the request wait timed out and
\* the two other waits drained.
PostDrainAfterAllWaitsWitness ==
    /\ mainPc = "returned"
    /\ reported["request"] /\ ~reported["goroutine"]
    /\ \A p \in Pools : twgPc[p] = "done"

\* C2 (as claimed): with RequestGracePeriod = 0 the post-drain action is not
\* reached while the handler of an accepted connection is still running.
NoHandlerRunningAtPostDrain ==
    (RequestGracePeriod = 0 /\ PostDrainReached)
        => \A c \in Conns : connPc[c] # "handling"

\* C3 (as claimed): with GoroutineGracePeriod = 0 the post-drain action is
\* not reached while a background task registered with Begin() has not yet
\* called End().
NoTaskRunningAtPostDrain ==
    (GoroutineGracePeriod = 0 /\ PostDrainReached) => tasks = 0

\* Every accepted connection has been served to its end: no handler is
\* running and none will be invoked any more.
AllHandlersCompleted ==
    /\ \E c \in Conns : connPc[c] # "none"
    /\ \A c \in Conns : connPc[c] \in {"none", "closed"}

\* C4 (as claimed): once every handler invocation on every accepted
\* connection has completed, the request counter is exactly 0.
RequestCounterReturnsToZero ==
    AllHandlersCompleted => requestWG = 0

\* C5 (as claimed): the request counter and the background-task counter are
\* never negative.
CountersNonNegative ==
    requestWG >= 0 /\ goroutineWG >= 0

\* C6 (as claimed): once Shutdown has been closed, acceptLoop issues no
\* further Accept call.
NoAcceptAfterClose ==
    acceptsAfterClose = 0

\* C6 (amended): once Shutdown has been closed, acceptLoop issues at most one
\* further Accept call, the one of the iteration whose Shutdown check came
\* before the close; an iteration that checks Shutdown after the close
\* issues none.
AtMostOneAcceptAfterClose ==
    /\ acceptsAfterClose <= 1
    /\ (Shutdown /\ acceptsAfterClose = 1) => alPc # "accept"

\* C6 witness: the loop stopped after issuing one Accept after the close.
AtMostOneAcceptAfterCloseWitness ==
    Shutdown /\ acceptsAfterClose = 1 /\ alPc = "stopped"

\* C7 (as claimed): after Shutdown is closed acceptLoop eventually returns,
\* whatever the clients do, when every Accept yields a connection or times
\* out.
AcceptLoopEventuallyStops ==
    Shutdown ~> (alPc = "stopped" /\ acceptWG = 0)

\* What is left of it: the loop returns unless the process has died of a
\* WaitGroup released by one pool change and found changed again.
AcceptLoopStopsUnlessReusePanic ==
    Shutdown ~> \/ alPc = "stopped" /\ acceptWG = 0
                \/ \E p \in Pools : waitPc[p] = "panicked"

\* C8 (as claimed): with both grace periods positive the shutdown sequence
\* eventually reaches the post-drain action, even if handlers or tasks
\* never complete.
PostDrainEventuallyReached ==
    (Shutdown /\ RequestGracePeriod > 0 /\ GoroutineGracePeriod > 0)
        ~> PostDrainReached

\* What is left of it: the post-drain action is reached unless the process
\* has died of that panic.
PostDrainReachedUnlessReusePanic ==
    (Shutdown /\ RequestGracePeriod > 0 /\ GoroutineGracePeriod > 0)
        ~> \/ PostDrainReached
           \/ \E p \in Pools : waitPc[p] = "panicked"

\* C9 (as claimed): the waits on the request counter and on the
\* background-task counter begin only after acceptLoop has stopped.
PoolWaitsBeginAfterAcceptLoopStopped ==
    (\E p \in {"request", "goroutine"} : twgPc[p] # "notStarted")
        => alPc = "stopped"

\* C10: goagain.Exec is invoked at most once, only for SIGUSR2 and only after
\* the drain has completed; ListenAndServe returns having called Exec exactly
\* when the signal was SIGUSR2.
ExecIffRestart ==
    /\ execCalls <= 1
    /\ execCalls = 1 => (sig = "SIGUSR2" /\ \A p \in Pools : twgPc[p] = "done")
    /\ sig # "SIGUSR2" => execCalls = 0
    /\ mainPc = "returned" => (execCalls = 1 <=> sig = "SIGUSR2")

\* C10 witness: ListenAndServe returned after SIGUSR2 having called Exec once.
ExecIffRestartWitness ==
    mainPc = "returned" /\ sig = "SIGUSR2" /\ execCalls = 1


\* C11: a connection is counted in requestWG from before its dispatch until
\* after its handler has completed, so the handlers that are running are
\* never more than the connections requestWG counts.
HandlerRunsOnlyWhileCounted ==
    Cardinality({c \in Conns : connPc[c] = "handling"}) <= requestWG

\* C12: Shutdown is a one-shot latch: it is open from startup until
\* goagain.Wait has returned a signal without error, it is closed by the one
\* close(Shutdown) before any drain wait has started, the close is never
\* executed on an already closed channel, and once closed it stays closed.
ShutdownIsOneShotLatch ==
    /\ [](mainPc \in {"start", "spawnFresh", "spawnInherited", "kill",
                      "wait", "close"} => ~Shutdown)
    /\ [][/\ Shutdown => Shutdown'
          /\ (~Shutdown /\ Shutdown') =>
                /\ mainPc = "close" /\ mainPc' = "spawnWaits"
                /\ sig \in Signals
                /\ ~aborted
                /\ \A p \in Pools : twgPc[p] = "notStarted" /\ ~doneWG[p]
          /\ (mainPc # "close" /\ mainPc' = "close") =>
                mainPc = "wait" /\ sig' \in Signals]_vars

\* C12 witness: the latch has been closed and observed closed: acceptLoop has
\* returned and a drain wait has ended.
ShutdownIsOneShotLatchWitness ==
    /\ Shutdown
    /\ alPc = "stopped" /\ err = "nil"
    /\ \E p \in Pools : twgPc[p] = "done"

\* C16: acceptLoop classifies every outcome of l.Accept and of srv.Serve.
\* A timeout of Accept leaves the loop running (back at the Shutdown check)
\* with requestWG unchanged; a closed listener makes the loop return
\* (acceptWG.Done) with no abort and requestWG unchanged; any other Accept
\* error aborts the process; errSingleListen from Serve keeps the loop
\* running; any other error from Serve aborts the process.
AcceptOutcomesClassified ==
    [][/\ (alPc = "accepted" /\ alPc' # "accepted") =>
            /\ err = "timeout" =>
                  /\ alPc' = "check" /\ ~aborted'
                  /\ requestWG' = requestWG /\ acceptWG' = acceptWG
            /\ err = "closing" =>
                  /\ alPc' = "stopped" /\ ~aborted'
                  /\ requestWG' = requestWG /\ acceptWG' = acceptWG - 1
            /\ err = "nil" =>
                  /\ alPc' = "serve" /\ ~aborted'
                  /\ requestWG' = requestWG + 1 /\ acceptWG' = acceptWG
            /\ err \notin {"timeout", "closing", "nil"} =>
                  alPc' = "fatal" /\ aborted'
       /\ (alPc = "served" /\ alPc' # "served") =>
            /\ err = "errSingleListen" =>
                  /\ alPc' = "check" /\ ~aborted'
                  /\ requestWG' = requestWG /\ acceptWG' = acceptWG
            /\ err # "errSingleListen" =>
                  alPc' = "fatal" /\ aborted'
       /\ (alPc' = "fatal" /\ alPc # "fatal") =>
            alPc \in {"accepted", "served"}]_vars

\* C16 witness: the listener was closed under a running loop: acceptLoop has
\* returned although Shutdown is open, the process was not aborted and a
\* connection accepted before is still counted.
AcceptOutcomesClassifiedWitness ==
    /\ alPc = "stopped" /\ ~Shutdown /\ ~aborted
    /\ acceptWG = 0 /\ requestWG = 1

\* C17: acceptLoop never waits for a dispatched connection: whatever the
\* handlers are doing, the step the loop is at can be taken, a further
\* connection can be accepted while earlier ones are in flight, and the
\* Shutdown check can be made.
LoopNeverWaitsForHandlers ==
    Running =>
      /\ alPc = "check" => ENABLED ALCheck
      /\ alPc = "accept" => ENABLED ALAccept
      /\ alPc = "inAccept" =>
            /\ ENABLED ALAcceptTimeout
            /\ (\E c \in Conns : connPc[c] = "none") => ENABLED ALAcceptConn
      /\ alPc = "accepted" => ENABLED ALAfterAccept
      /\ alPc = "serve" => ENABLED ALServe
      /\ alPc = "served" => ENABLED ALAfterServe

\* C17 witness: two connections are in flight at once, both handlers still
\* running, and acceptLoop has meanwhile seen Shutdown closed and returned.
LoopNeverWaitsForHandlersWitness ==
    /\ requestWG > 1
    /\ \E c, d \in Conns :
          c # d /\ connPc[c] = "handling" /\ connPc[d] = "handling"
    /\ Shutdown /\ alPc = "stopped" /\ acceptWG = 0

\* The step in which pool p is reported as unfinished.
Reports(p) == ~reported[p] /\ reported'[p]

\* The expiry of one pool's grace period leaves the waits on the other pools
\* as they are.
ExpiryLeavesOtherWaits ==
    \A p \in Pools : Reports(p) =>
        \A q \in Pools \ {p} :
            /\ twgPc'[q] = twgPc[q]
            /\ doneWG'[q] = doneWG[q]
            /\ reported'[q] = reported[q]

\* A pool is reported only by its own wait, still pending, on the expiry of
\* its own timer.
ReportedOnOwnTimerOnly ==
    \A p \in Pools : Reports(p) =>
        /\ PoolTimeout(p) > 0
        /\ twgPc[p] = "select" /\ twgPc'[p] = "done"

\* C18 as stated: the pools are drained independently, a pool is reported
\* only when its own timer has fired, a pool whose counter was seen at zero
\* (doneWG closed) before its timer fired is never reported, and the
\* accept-loop wait is never reported.
DrainedPoolNeverReported ==
    /\ [](~reported["accept"])
    /\ [][/\ ExpiryLeavesOtherWaits
          /\ ReportedOnOwnTimerOnly
          /\ \A p \in Pools : doneWG[p] => ~Reports(p)]_vars

\* C18 (amended): the pools are drained independently, a pool is reported
\* only by its own pending wait when its own timer has fired, a pool whose
\* wait has ended through the doneWG case is never reported afterwards, and
\* the accept-loop wait, having no timer, is never reported.
PoolsDrainedIndependently ==
    /\ [](~reported["accept"])
    /\ [][/\ ExpiryLeavesOtherWaits
          /\ ReportedOnOwnTimerOnly
          /\ \A p \in Pools : twgPc[p] = "done" => ~Reports(p)]_vars

\* C18 witness: the request pool's grace period has expired and the pool was
\* reported, while the wait on the background-task pool is still pending
\* with its task running.
PoolsDrainedIndependentlyWitness ==
    /\ reported["request"] /\ twgPc["request"] = "done"
    /\ twgPc["goroutine"] = "select" /\ ~doneWG["goroutine"]
    /\ goroutineWG > 0

\* C19: startup ordering.  goagain.Kill is called only on the inherited
\* path and only after acceptLoop was spawned, never on the fresh path;
\* goagain.Wait is entered only after the spawn and, on the inherited path,
\* after Kill; while main is at Kill or Wait (also after either has failed
\* and aborted the process) Shutdown is open and no drain wait has started,
\* and nothing runs on after an abort.
StartupHandoffOrdering ==
    /\ [](mainPc \in {"kill", "wait"} =>
             /\ alPc # "notStarted"
             /\ ~Shutdown
             /\ \A p \in Pools : twgPc[p] = "notStarted")
    /\ [](mainPc \in {"start", "spawnFresh", "spawnInherited"} =>
             alPc = "notStarted")
    /\ [][/\ ~aborted
          /\ (mainPc # "kill" /\ mainPc' = "kill") =>
                mainPc = "spawnInherited" /\ alPc' # "notStarted"
          /\ mainPc = "spawnFresh" => mainPc' \in {"spawnFresh", "wait"}
          /\ (mainPc # "wait" /\ mainPc' = "wait") =>
                mainPc \in {"spawnFresh", "kill"} /\ alPc' # "notStarted"
          /\ mainPc = "spawnInherited" =>
                mainPc' \in {"spawnInherited", "kill"}]_vars

\* C19 witness: main is about to notify the predecessor (goagain.Kill) and
\* acceptLoop is already polling the inherited listener.
StartupHandoffOrderingWitness ==
    /\ mainPc = "kill" /\ ~aborted
    /\ alPc = "inAccept"

\* The Accept calls that have taken the connection and not yet returned.
Holders == {t \in Callers : slOp[t] = "Accept" /\ slPc[t] = "ret"
                                               /\ slC[t] = "conn"}

\* Every Accept call returns either the wrapped connection with a nil error
\* or no connection with errSingleListen.
AcceptReturnsWellFormed ==
    acceptReturns \subseteq {<<"timeoutConn", "nil">>,
                             <<"nil", "errSingleListen">>}

\* C13 as stated: across all Accept calls on one singleListener exactly one
\* returns the connection (once any Accept call has returned, the
\* connection has been handed out or is held by a call about to return it)
\* and all others return errSingleListen with no connection.
AcceptHandsOutExactlyOnce ==
    /\ AcceptReturnsWellFormed
    /\ handedOut + Cardinality(Holders) <= 1
    /\ acceptReturns # {} => handedOut + Cardinality(Holders) = 1

\* C13 (amended): at most one Accept call returns the connection and all
\* others return errSingleListen with no connection; exactly one does when
\* the first call through the once was an Accept, and none does when it
\* was a Close.
AcceptHandsOutAtMostOnce ==
    /\ AcceptReturnsWellFormed
    /\ handedOut + Cardinality(Holders) <= 1
    /\ (handedOut = 1) <=> (<<"timeoutConn", "nil">> \in acceptReturns)
    /\ ran = "Accept" => handedOut + Cardinality(Holders) = 1
    /\ ran # "Accept" => handedOut + Cardinality(Holders) = 0
    /\ (acceptReturns # {} /\ ran # "Close") => ran = "Accept"

\* C13 witness: one Accept call has returned the connection and another
\* one errSingleListen.
AcceptHandsOutAtMostOnceWitness ==
    /\ handedOut = 1
    /\ acceptReturns = {<<"timeoutConn", "nil">>, <<"nil", "errSingleListen">>}

\* C14 as stated: once Close has been called on a singleListener, in any
\* interleaving with Accept calls, the connection's Close has been invoked
\* exactly once and every Close call returns success.
ConnClosedExactlyOnce ==
    /\ connCloses <= 1
    /\ closeReturns # {} => connCloses = 1 /\ closeReturns = {"nil"}

\* C14 (amended): the connection's Close is invoked at most once: exactly
\* once when the first call through the once was a Close, not at all when
\* it was an Accept; a Close call that did not invoke it returns nil, the
\* one that did returns its result.
ConnClosedAtMostOnce ==
    /\ connCloses <= 1
    /\ (connCloses = 1) <=> (ran = "Close")
    /\ closeReturns # {} => ran # "none"
    /\ "closeErr" \in closeReturns => ran = "Close"
    /\ Cardinality({t \in Callers : slErr[t] # "nil"}) <= connCloses

\* C14 witness: every call made was a Close, all have returned (without
\* error), and the connection was closed once.
ConnClosedAtMostOnceWitness ==
    /\ slCalls = MaxCalls
    /\ \A t \in Callers : slPc[t] = "idle"
    /\ acceptReturns = {} /\ closeReturns = {"nil"}
    /\ connCloses = 1

\* C20: Accept and Close share the one once, so only the first call through
\* it has an effect: the connection is handed out or it is closed, never
\* both.  After an Accept took it every Close is a no-op returning nil and
\* the connection stays open; after a Close ran every Accept returns
\* errSingleListen; before either no call has returned.
SharedGateOneEffect ==
    /\ (ran = "none") <=> (once # "done")
    /\ handedOut + Cardinality(Holders) + connCloses <= 1
    /\ ran = "Accept" =>
          /\ connCloses = 0
          /\ closeReturns \subseteq {"nil"}
          /\ \A t \in Callers : slErr[t] = "nil"
    /\ ran = "Close" =>
          /\ connCloses = 1
          /\ handedOut = 0 /\ Holders = {}
          /\ acceptReturns \subseteq {<<"nil", "errSingleListen">>}
    /\ ran = "none" =>
          /\ handedOut = 0 /\ connCloses = 0
          /\ acceptReturns = {} /\ closeReturns = {}

\* C20 witness: Accept has returned the connection and a later Close has
\* returned nil without closing it.
SharedGateOneEffectWitness ==
    /\ handedOut = 1
    /\ closeReturns = {"nil"}
    /\ connCloses = 0

\* C15: in every call, finished or in progress, of every goroutine: Read
\* has set the read deadline iff readTimeout > 0 and Write the write
\* deadline iff writeTimeout > 0; neither has set the other direction's
\* deadline; when setting the deadline failed the call has returned
\* (0, err) without calling the connection's Read/Write, otherwise it
\* returns what the connection's Read/Write returned; and the connection's
\* Read/Write is called only after the deadline step, which it leaves as
\* it was.
DeadlineSetIffTimeoutPositive ==
    /\ [](\A t \in Callers :
            /\ tcOp[t] = "Read" =>
                  /\ ("read" \in tcDeadlines[t]) <=> (readTimeout > 0)
                  /\ "write" \notin tcDeadlines[t]
            /\ tcOp[t] = "Write" =>
                  /\ ("write" \in tcDeadlines[t]) <=> (writeTimeout > 0)
                  /\ "read" \notin tcDeadlines[t]
            /\ tcDeadlines[t] = {} => tcDeadlineErr[t] = "nil"
            /\ tcDeadlineErr[t] # "nil" =>
                  /\ tcPc[t] = "idle" /\ ~tcDelegated[t]
                  /\ tcRet[t] = <<0, tcDeadlineErr[t]>>
            /\ tcPc[t] = "io" => tcDelegated[t]
            /\ (tcOp[t] # "none" /\ tcDeadlineErr[t] = "nil"
                                 /\ tcPc[t] = "idle") =>
                  tcDelegated[t] /\ tcRet[t][2] \in IOErrors)
    /\ [][\A t \in Callers :
            (~tcDelegated[t] /\ tcDelegated'[t]) =>
                /\ tcPc[t] = "armed" /\ tcDeadlineErr[t] = "nil"
                /\ tcOp'[t] = tcOp[t]
                /\ tcDeadlines'[t] = tcDeadlines[t]]_vars

\* C15 witness: on a connection with a read timeout and no write timeout,
\* one goroutine's Read has set the read deadline and is blocked in the
\* connection's Read, while another goroutine's Read has failed to set the
\* deadline and returned (0, err) without reading the connection.
DeadlineSetIffTimeoutPositiveWitness ==
    /\ readTimeout > 0 /\ writeTimeout = 0
    /\ \E t, u \in Callers :
          /\ tcOp[t] = "Read" /\ tcPc[t] = "io"
          /\ tcDeadlines[t] = {"read"} /\ tcDelegated[t]
          /\ tcOp[u] = "Read" /\ tcPc[u] = "idle"
          /\ tcDeadlines[u] = {"read"} /\ tcDeadlineErr[u] = "deadlineErr"
          /\ tcRet[u] = <<0, "deadlineErr">> /\ ~tcDelegated[u]

\* C21: at most one Accept call returns after Shutdown was closed, and after
\* it the loop issues no further Accept (the next thing it does is the
\* Shutdown check), so at most one connection is accepted after the close;
\* that connection is counted in requestWG and handed to the server like
\* any other.
AtMostOneAcceptCompletesAfterClose ==
    /\ [](completedAfterClose <= 1)
    /\ [](completedAfterClose = 1 =>
             Shutdown /\ alPc \notin {"accept", "inAccept"})
    /\ [][/\ (completedAfterClose = 1 /\ alPc = "accepted" /\ err = "nil"
                                      /\ alPc' # "accepted") =>
                /\ alPc' = "serve" /\ ~aborted'
                /\ requestWG' = requestWG + 1
                /\ cur' = cur /\ connPc'[cur] = "accepted"
          /\ (completedAfterClose = 1 /\ alPc = "serve"
                                      /\ err' = "errSingleListen") =>
                alPc' = "served" /\ connPc'[cur] = "idle"]_vars

\* C21 witness: the only connection ever accepted was accepted after the
\* close of Shutdown; it was counted, Serve has handed it over and its
\* handler is running.
AtMostOneAcceptCompletesAfterCloseWitness ==
    /\ Shutdown /\ completedAfterClose = 1
    /\ alPc = "served" /\ err = "errSingleListen"
    /\ connPc[1] = "handling"
    /\ \A c \in Conns \ {1} : connPc[c] = "none"
    /\ requestWG = 1

====
